---- MODULE Spec2Model ----
(***************************************************************************)
(* URL shortener service (app/main.py, app/models.py, app/db.py).          *)
(*                                                                         *)
(* The store is the url_mappings table.  Every request gets its own        *)
(* Session (get_session), so a handler is a sequence of steps against the  *)
(* shared table: each db.exec(select ...) reads the committed table, each  *)
(* db.commit() flushes the session's pending INSERT/UPDATE and commits it. *)
(* The handlers in progress are a bag of frames (a handler's locals and    *)
(* where it stands); they interleave under Spec and run one at a time      *)
(* under SerialSpec.                                                       *)
(***************************************************************************)
EXTENDS Integers, Sequences, FiniteSets, Bags, TLC

VARIABLES
    store,      \* the url_mappings table, in id order
    running,    \* the handlers in progress: a bag of frames
    resp,       \* the HTTP response sent by the latest step (NoResp if none)
    returned,   \* history: <<url, code>> pairs answered 200 by POST /shorten
    hits,       \* history: number of 307 responses sent per code
    nreq        \* history: number of requests accepted so far

vars == <<store, running, resp, returned, hits, nreq>>

(* ---------------------------- bounds ----------------------------------- *)

\* Total number of requests the service accepts in one behaviour.
MaxRequests == 4

\* Worker threads of the server's pool: handlers in progress at one time.
NumWorkers == 3

\* The values generate_code() can draw (a 3-element stand-in for 62^6).
Codes == {"aaaaaa", "aaaaab", "aaaaac"}

(* ---------------------------- strings ---------------------------------- *)

\* A str is a sequence of one-character strings.
HTTP == <<"h", "t", "t", "p", ":", "/", "/">>

HTTPS == <<"h", "t", "t", "p", "s", ":", "/", "/">>

\* Request bodies submitted to POST /shorten when requests are handled one
\* at a time: "", "e.c", "ftp://a", "http://a b", "http://a<TAB>b",
\* "http://a", "http://b", "https://a".
Urls ==
    { <<>>,
      <<"e", ".", "c">>,
      <<"f", "t", "p", ":", "/", "/", "a">>,
      HTTP \o <<"a", " ", "b">>,
      HTTP \o <<"a", "\t", "b">>,
      HTTP \o <<"a">>,
      HTTP \o <<"b">>,
      HTTPS \o <<"a">> }

\* Request bodies submitted when handlers interleave: "", "http://a b",
\* "http://a", "https://a".
RaceUrls ==
    { <<>>,
      HTTP \o <<"a", " ", "b">>,
      HTTP \o <<"a">>,
      HTTPS \o <<"a">> }

\* str.startswith(prefix)
startswith(v, prefix) ==
    /\ Len(v) >= Len(prefix)
    /\ SubSeq(v, 1, Len(prefix)) = prefix

\* `c in v` for a one-character c
contains(v, c) == \E i \in 1..Len(v) : v[i] = c

None == "None"

\* The absent str (a value no request body equals).
NoUrl == <<None>>

\* validate_url without its `if ' ' in v` check.
validate_url_NoSpaceCheck(v) ==
    IF v = <<>> THEN "URL cannot be empty"
    ELSE IF ~(startswith(v, HTTP) \/ startswith(v, HTTPS))
         THEN "URL must start with http:// or https://"
    ELSE None

\* ShortenRequest.validate_url: None when the validator returns v, else the
\* message of the ValueError it raises (FastAPI answers 422 with it).
validate_url(v) ==
    IF v = <<>> THEN "URL cannot be empty"
    ELSE IF ~(startswith(v, HTTP) \/ startswith(v, HTTPS))
         THEN "URL must start with http:// or https://"
    ELSE IF contains(v, " ") THEN "URL cannot contain spaces"
    ELSE None

(* ---------------------------- the table -------------------------------- *)

max_attempts == 10

\* A row of url_mappings; its id is its position in store (autoincrement,
\* rows are never deleted).
URLMapping(c, u) == [code |-> c, target_url |-> u, visits |-> 0]

Min(S) == CHOOSE x \in S : \A y \in S : x <= y

\* select(URLMapping).where(URLMapping.target_url == u) ... .first():
\* the id of the first matching row, 0 when there is none.
first_by_url(u) ==
    LET ids == {i \in 1..Len(store) : store[i].target_url = u}
    IN  IF ids = {} THEN 0 ELSE Min(ids)

\* select(URLMapping).where(URLMapping.code == c) ... .first()
first_by_code(c) ==
    LET ids == {i \in 1..Len(store) : store[i].code = c}
    IN  IF ids = {} THEN 0 ELSE Min(ids)

\* url_mappings.code declared without unique=True: no INSERT is refused.
unique_code_ok_NoIndex(c) == TRUE

\* The unique index on url_mappings.code: an INSERT of code c is refused
\* (IntegrityError) when a row already carries c.
unique_code_ok(c) == first_by_code(c) = 0

(* ---------------------------- responses -------------------------------- *)

\* An HTTP response: the endpoint it answers with the request's url (POST
\* /shorten) or path code (GET), the status, and the body's fields (detail
\* for errors; code, target, visits otherwise).
Response(op, v, c, st, d, bc, bt, bn) ==
    [op |-> op, url |-> v, path |-> c, status |-> st, detail |-> d,
     code |-> bc, target |-> bt, visits |-> bn]

NoResp == Response(None, NoUrl, None, 0, None, None, NoUrl, 0)

\* ShortenResponse(code=..., short_url=...): short_url is BASE_URL/code.
ShortenResponse(v, c) == Response("shorten", v, None, 200, None, c, NoUrl, 0)

\* StatsResponse(code=..., target=..., visits=...)
StatsResponse(c, m) ==
    Response("stats", NoUrl, c, 200, None, m.code, m.target_url, m.visits)

\* RedirectResponse(url=..., status_code=307)
RedirectResponse(c, t) == Response("redirect", NoUrl, c, 307, None, None, t, 0)

\* A 422 or 500 answer to POST /shorten for url v.
ShortenError(v, st, d) == Response("shorten", v, None, st, d, None, NoUrl, 0)

\* HTTPException(status_code=404, detail="URL not found") on GET op for c.
NotFound(op, c) == Response(op, NoUrl, c, 404, "URL not found", None, NoUrl, 0)

NoMapping == [id |-> 0, visits |-> 0]

\* The frame of a handler: where it stands and its locals (request.url;
\* `code`, the path parameter or the candidate the loop left with, as a
\* candidate found taken is never read again; the iterations of the
\* allocation loop already run; the row loaded into its session).
Frame(l, v, c, a, m) ==
    [pc |-> l, url |-> v, code |-> c, attempt |-> a, mapping |-> m]

Init ==
    /\ store = <<>>
    /\ running = EmptyBag
    /\ resp = NoResp
    /\ returned = {}
    /\ hits = [c \in Codes |-> 0]
    /\ nreq = 0

\* A worker thread is free to take a request.
Accepts ==
    /\ BagCardinality(running) < NumWorkers
    /\ nreq < MaxRequests

\* A handler is entered with frame h and sends nothing yet.
Enter(h) ==
    /\ running' = running (+) SetToBag({h})
    /\ resp' = NoResp

\* The handler with frame h goes on with frame g and sends nothing.
Goto(h, g) ==
    /\ running' = (running (-) SetToBag({h})) (+) SetToBag({g})
    /\ resp' = NoResp

\* The handler with frame h returns: its session is closed, its locals die.
Finish(h) == running' = running (-) SetToBag({h})

(* ---------------------------- POST /shorten ---------------------------- *)

\* The body fails ShortenRequest validation: 422, shorten_url is not called.
ShortenRejected(v) ==
    /\ Accepts
    /\ validate_url(v) # None
    /\ resp' = ShortenError(v, 422, validate_url(v))
    /\ nreq' = nreq + 1
    /\ UNCHANGED <<store, running, returned, hits>>

\* shorten_url without its `if existing:` branch: every valid request goes
\* on to allocate a code.
ShortenLookup_NoExistingCheck(v) ==
    /\ Accepts
    /\ validate_url(v) = None
    /\ Enter(Frame("allocate", v, None, 0, NoMapping))
    /\ nreq' = nreq + 1
    /\ UNCHANGED <<store, returned, hits>>

\* The body validates and shorten_url runs up to its first query:
\* existing = db.exec(select ... target_url == request.url).first();
\* a row found is answered at once, from its code.
ShortenLookup(v) ==
    /\ Accepts
    /\ validate_url(v) = None
    /\ LET existing == first_by_url(v)
       IN  IF existing # 0
           THEN /\ resp' = ShortenResponse(v, store[existing].code)
                /\ returned' = returned \cup {<<v, store[existing].code>>}
                /\ UNCHANGED running
           ELSE /\ Enter(Frame("allocate", v, None, 0, NoMapping))
                /\ UNCHANGED returned
    /\ nreq' = nreq + 1
    /\ UNCHANGED <<store, hits>>

\* The loop running one iteration too many: range(max_attempts + 1).
ShortenAllocate_OneMore(h, c) ==
    /\ h.pc = "allocate"
    /\ IF first_by_code(c) = 0
       THEN Goto(h, Frame("insert", h.url, c, 0, NoMapping))
       ELSE IF h.attempt + 1 < max_attempts + 1
            THEN Goto(h, Frame("allocate", h.url, None, h.attempt + 1,
                               NoMapping))
            ELSE /\ resp' = ShortenError(h.url, 500,
                                       "Failed to generate unique code")
                 /\ Finish(h)
    /\ UNCHANGED <<store, returned, hits, nreq>>

\* One iteration of `for _ in range(max_attempts)`, generate_code() drawing
\* c: look c up; break on a free code, raise the 500 when the range is used
\* up.
ShortenAllocate(h, c) ==
    /\ h.pc = "allocate"
    /\ IF first_by_code(c) = 0
       THEN Goto(h, Frame("insert", h.url, c, 0, NoMapping))
       ELSE IF h.attempt + 1 < max_attempts
            THEN Goto(h, Frame("allocate", h.url, None, h.attempt + 1,
                               NoMapping))
            ELSE /\ resp' = ShortenError(h.url, 500,
                                       "Failed to generate unique code")
                 /\ Finish(h)
    /\ UNCHANGED <<store, returned, hits, nreq>>

\* db.add(mapping); db.commit(), then the 200 response built from `code`.
\* A refused INSERT raises IntegrityError out of the handler: 500, rolled back.
ShortenInsert(h) ==
    /\ h.pc = "insert"
    /\ IF unique_code_ok(h.code)
       THEN /\ store' = Append(store, URLMapping(h.code, h.url))
            /\ resp' = ShortenResponse(h.url, h.code)
            /\ returned' = returned \cup {<<h.url, h.code>>}
       ELSE /\ resp' = ShortenError(h.url, 500, "Internal Server Error")
            /\ UNCHANGED <<store, returned>>
    /\ Finish(h)
    /\ UNCHANGED <<hits, nreq>>

(* ---------------------------- GET /_stats/{code} ----------------------- *)

\* get_stats without its `if not mapping` branch: a missing row is answered
\* 200 with empty fields.
GetStats_NoNotFound(c) ==
    /\ Accepts
    /\ LET m == first_by_code(c)
       IN  IF m = 0
           THEN resp' = Response("stats", NoUrl, c, 200, None, None, NoUrl, 0)
           ELSE resp' = StatsResponse(c, store[m])
    /\ nreq' = nreq + 1
    /\ UNCHANGED <<store, running, returned, hits>>

\* get_stats: one query, then the 404 or the row's fields.
GetStats(c) ==
    /\ Accepts
    /\ LET m == first_by_code(c)
       IN  IF m = 0
           THEN resp' = NotFound("stats", c)
           ELSE resp' = StatsResponse(c, store[m])
    /\ nreq' = nreq + 1
    /\ UNCHANGED <<store, running, returned, hits>>

(* ---------------------------- GET /{code} ------------------------------ *)

\* redirect_to_url up to its query:
\* mapping = db.exec(select ... code == code).first(); no row is the 404,
\* a row is loaded into the session, visits as it was at this read.
RedirectFind(c) ==
    /\ Accepts
    /\ LET m == first_by_code(c)
       IN  IF m = 0
           THEN /\ resp' = NotFound("redirect", c)
                /\ UNCHANGED running
           ELSE Enter(Frame("update", NoUrl, c, 0,
                            [id |-> m, visits |-> store[m].visits]))
    /\ nreq' = nreq + 1
    /\ UNCHANGED <<store, returned, hits>>

\* mapping.visits += 2
incremented_ByTwo(m) == m.visits + 2

\* The value the flush writes: mapping.visits += 1 on the loaded object.
incremented(m) == m.visits + 1

\* mapping.visits += 1; db.add(mapping); db.commit():
\* UPDATE url_mappings SET visits = <loaded value + 1> WHERE id = <id>.
RedirectUpdate(h) ==
    /\ h.pc = "update"
    /\ store' = [store EXCEPT ![h.mapping.id].visits = incremented(h.mapping)]
    /\ Goto(h, Frame("reload", h.url, h.code, h.attempt, h.mapping))
    /\ UNCHANGED <<returned, hits, nreq>>

\* The redirect answered from the table's first row instead of the loaded one.
RedirectRespond_FirstRow(h) ==
    /\ h.pc = "reload"
    /\ resp' = RedirectResponse(h.code, store[1].target_url)
    /\ hits' = [hits EXCEPT ![h.code] = hits[h.code] + 1]
    /\ Finish(h)
    /\ UNCHANGED <<store, returned, nreq>>

\* RedirectResponse(url=mapping.target_url): the commit expired the object,
\* so target_url is read back from the row.
RedirectRespond(h) ==
    /\ h.pc = "reload"
    /\ resp' = RedirectResponse(h.code, store[h.mapping.id].target_url)
    /\ hits' = [hits EXCEPT ![h.code] = hits[h.code] + 1]
    /\ Finish(h)
    /\ UNCHANGED <<store, returned, nreq>>

(* ---------------------------- specifications --------------------------- *)

\* The frames of the handlers in progress.
Frames == BagToSet(running)

\* Handlers in progress interleave step by step.
Next ==
    \/ \E v \in RaceUrls : ShortenRejected(v)
    \/ \E v \in RaceUrls : ShortenLookup(v)
    \/ \E h \in Frames, c \in Codes : ShortenAllocate(h, c)
    \/ \E h \in Frames : ShortenInsert(h)
    \/ \E c \in Codes : GetStats(c)
    \/ \E c \in Codes : RedirectFind(c)
    \/ \E h \in Frames : RedirectUpdate(h)
    \/ \E h \in Frames : RedirectRespond(h)

Spec == Init /\ [][Next]_vars

\* Requests are handled one at a time: no request is accepted while a
\* handler is running.
NoneRunning == running = EmptyBag

SerialNext ==
    \/ \E v \in Urls : NoneRunning /\ ShortenRejected(v)
    \/ \E v \in Urls : NoneRunning /\ ShortenLookup(v)
    \/ \E h \in Frames, c \in Codes : ShortenAllocate(h, c)
    \/ \E h \in Frames : ShortenInsert(h)
    \/ \E c \in Codes : NoneRunning /\ GetStats(c)
    \/ \E c \in Codes : NoneRunning /\ RedirectFind(c)
    \/ \E h \in Frames : RedirectUpdate(h)
    \/ \E h \in Frames : RedirectRespond(h)

SerialSpec == Init /\ [][SerialNext]_vars

(* ---------------------------- properties ------------------------------- *)

\* The codes POST /shorten has answered 200 for url u.
codes_returned(u) == {x[2] : x \in {y \in returned : y[1] = u}}

\* The rows whose target_url is u.
rows_of(u) == {i \in 1..Len(store) : store[i].target_url = u}

\* C1 (SerialSpec). Idempotence of shorten: with requests handled one at a
\* time, a POST /shorten for a target_url that already has a row is answered
\* 200 with that row's code and leaves the table as it was; so every url has
\* at most one row, and every call for it has returned the same code.
C1_ShortenIdempotent ==
    /\ [](\A v \in Urls : Cardinality(rows_of(v)) <= 1)
    /\ [](\A v \in Urls : Cardinality(codes_returned(v)) <= 1)
    /\ [][\A v \in Urls :
            (ShortenLookup(v) /\ first_by_url(v) # 0)
                => /\ store' = store
                   /\ resp' = ShortenResponse(v, store[first_by_url(v)].code)
                   /\ codes_returned(v) = {resp'.code}
                   /\ returned' = returned]_vars

\* A third request repeats the first url after a second url was shortened:
\* it is answered from the first row and the table still has two rows.
C1_Witness ==
    /\ nreq = 3
    /\ Len(store) = 2
    /\ resp.op = "shorten"
    /\ resp.status = 200
    /\ resp.url = store[1].target_url
    /\ resp.code = store[1].code

\* C2 (Spec). Code uniqueness: under every interleaving no two rows carry
\* the same code, and two successful shorten calls for distinct urls never
\* returned the same code.
C2_CodesUnique ==
    /\ \A i, j \in 1..Len(store) : store[i].code = store[j].code => i = j
    /\ \A x, y \in returned : x[1] # y[1] => x[2] # y[2]

\* Two handlers chose the same free code; the second INSERT was refused.
C2_Witness ==
    /\ resp.status = 500
    /\ resp.detail = "Internal Server Error"
    /\ \E i \in 1..Len(store) : store[i].target_url # resp.url

\* C3 (SerialSpec). Visit counting: a row is created with visits = 0, and
\* with requests handled one at a time GET /_stats/{code} reports as visits
\* the number of 307 responses GET /{code} has sent for that code.
C3_VisitsCountRedirects ==
    /\ []((resp.op = "stats" /\ resp.status = 200)
            => resp.visits = hits[resp.path])
    /\ [](NoneRunning
            => \A i \in 1..Len(store) : store[i].visits = hits[store[i].code])
    /\ [][Len(store') > Len(store) => store'[Len(store')].visits = 0]_vars

\* Stats asked after two redirects on a code reports 2.
C3_Witness ==
    /\ resp.op = "stats"
    /\ resp.status = 200
    /\ resp.visits = 2
    /\ hits[resp.path] = 2

\* C4 (Spec). No lost visit updates: when no redirect handler is between its
\* read and its response, every row's visits equals the number of 307
\* responses sent for its code, however the handlers interleaved.
C4_NoLostVisits ==
    (\A h \in Frames : h.pc \notin {"update", "reload"})
        => \A i \in 1..Len(store) : store[i].visits = hits[store[i].code]

\* Characters str.isspace() accepts, among those the request bodies use.
Whitespace == {" ", "\t", "\n", "\r"}

\* A url that is empty, lacks the scheme prefix or holds any whitespace.
Malformed(v) ==
    \/ v = <<>>
    \/ ~(startswith(v, HTTP) \/ startswith(v, HTTPS))
    \/ \E i \in 1..Len(v) : v[i] \in Whitespace

\* A url that is empty, lacks the scheme prefix or holds a space (U+0020).
MalformedOrSpace(v) ==
    \/ v = <<>>
    \/ ~(startswith(v, HTTP) \/ startswith(v, HTTPS))
    \/ \E i \in 1..Len(v) : v[i] = " "

TheFrame ==
    IF running = EmptyBag
    THEN Frame("idle", NoUrl, None, 0, NoMapping)
    ELSE CHOOSE h \in Frames : TRUE

C7_NotFound ==
    /\ [](resp.status = 404 => first_by_code(resp.path) = 0)
    /\ []((resp.op \in {"stats", "redirect"} /\ resp.status # 404)
            => first_by_code(resp.path) # 0)
    /\ [][resp'.status = 404
            => (store' = store /\ hits' = hits /\ running' = running)]_vars

\* A redirect on a code no row carries, while other rows exist.
C7_Witness ==
    /\ resp.op = "redirect"
    /\ resp.status = 404
    /\ Len(store) > 0

\* C8 (Spec). Round-trip: once POST /shorten has answered url U with code C,
\* a row (C, U) stays in the table, and every later redirect on C is
\* answered 307 with target exactly U, never 404.
C8_RoundTrip ==
    /\ \A x \in returned :
         \E i \in 1..Len(store) :
             store[i].code = x[2] /\ store[i].target_url = x[1]
    /\ (resp.op = "redirect" /\ resp.status = 307)
         => \A x \in returned : x[2] = resp.path => resp.target = x[1]
    /\ (resp.op = "redirect" /\ resp.status = 404)
         => \A x \in returned : x[2] # resp.path

\* A redirect on the second row's code is answered with that row's url.
C8_Witness ==
    /\ resp.op = "redirect"
    /\ resp.status = 307
    /\ Len(store) >= 2
    /\ resp.path = store[2].code
    /\ <<resp.target, resp.path>> \in returned

\* C9 as stated (Spec). However many shorten requests race on one url, at
\* most two rows share a target_url.
C9_AtMostTwoRowsPerUrl ==
    \A v \in RaceUrls : Cardinality(rows_of(v)) <= 2

\* C10 as stated (Spec). Across every step, a row's visits never decreases
\* and is never negative.
C10_VisitsMonotone ==
    /\ [](\A i \in 1..Len(store) : store[i].visits >= 0)
    /\ [][\A i \in 1..Len(store) : store'[i].visits >= store[i].visits]_vars

====
